---- MODULE Spec2Model ----
(***************************************************************************)
(* Model of the outcome pipeline of data_preparation.py:                   *)
(*   create_medication_periods -> create_observation_timeline ->           *)
(*   create_patient_medication_outcomes, as main() chains them.            *)
(*                                                                         *)
(* A DataFrame is a sequence of rows (records); row order is the frame's   *)
(* positional order.  A cell that holds a date is a record [k, t]: k is    *)
(* "str" (text that parses to the instant t), "bad" (text that is no       *)
(* date), "NaN" (empty cell), "ts" (a Timestamp at instant t) or "NaT".    *)
(* Instants are counted in hours.  A cell that holds a value is a record   *)
(* [k, n, d]: k is "str" (text that parses to the number n/d), "text"      *)
(* (text that is no number), "NaN" (empty cell), "num" (the float n/d) or  *)
(* "nan".  A code or description cell is a string; the string "NaN" is     *)
(* the empty cell.                                                         *)
(***************************************************************************)
EXTENDS Integers, Sequences, FiniteSets, TLC

VARIABLES
    medications_csv,     \* the medication table as handed to main's line 436 (never written)
    observations_csv,    \* the observation table as handed to main's line 439 (never written)
    medications_df,      \* filtered_dataset["medications"], written in place by stage 1
    observations_df,     \* filtered_dataset["observations"], written in place by stage 2
    medication_periods,  \* main's local: the name of the frame object it is bound to
    timeline_df,         \* main's local: the timeline frame, written in place by stage 3
    outcomes_df,         \* main's local: the outcome frame
    sort_kind,           \* how the build's quicksort orders equal keys
    pc,                  \* position in main, or "raised"
    run,                 \* which run of the pipeline on these frame objects this is
    first_run            \* the timeline and the outcomes the first run ended with

vars == <<medications_csv, observations_csv, medications_df, observations_df,
          medication_periods, timeline_df, outcomes_df, sort_kind, pc, run, first_run>>

-----------------------------------------------------------------------------
(* Cells, and pandas' conversions of them *)

HoursPerDay == 24

NaN == "NaN"

IsNaN(s) == s = NaN

StrDate(t) == [k |-> "str", t |-> t]
BadDate == [k |-> "bad", t |-> 0]
NoDate == [k |-> "NaN", t |-> 0]
Timestamp(t) == [k |-> "ts", t |-> t]
NaT == [k |-> "NaT", t |-> 0]

\* Midnight of a day number, as the text of a calendar date
DateOnly(day) == StrDate(day * HoursPerDay)

\* The day number (days after 1970-01-01) of a date of the Gregorian calendar,
\* which is what pd.to_datetime makes of the text "yyyy-mm-dd"
DayNumber(year, month, day) ==
    LET y == IF month <= 2 THEN year - 1 ELSE year
        era == y \div 400
        yoe == y - era * 400
        mp == IF month > 2 THEN month - 3 ELSE month + 9
        doy == (153 * mp + 2) \div 5 + day - 1
        doe == yoe * 365 + yoe \div 4 - yoe \div 100 + doy
    IN era * 146097 + doe - 719468

CalendarDate(year, month, day) == DateOnly(DayNumber(year, month, day))

\* pd.Timestamp.max is 2262-04-11 23:47:16.854775807: day 106751 after the epoch, hour 23
TimestampMax == Timestamp(106751 * HoursPerDay + 23)

\* pd.to_datetime of one cell; text that is no date makes the whole call raise
ToDatetimeRaises(c) == c.k = "bad"

\* ToDatetime that takes text only and makes NaT of every other cell
ToDatetimeOfTextOnly(c) ==
    CASE c.k = "str" -> Timestamp(c.t)
      [] OTHER -> NaT

ToDatetime(c) ==
    CASE c.k = "str" -> Timestamp(c.t)
      [] c.k = "NaN" -> NaT
      [] OTHER -> c

\* FillNa leaving the empty cell empty
FillNaNothing(c) == c

\* Series.fillna(pd.Timestamp.max) of one cell
FillNa(c) == IF c.k = "NaT" THEN TimestampMax ELSE c

StrNum(n) == [k |-> "str", n |-> n, d |-> 1]
TextValue == [k |-> "text", n |-> 0, d |-> 1]
NoValue == [k |-> "NaN", n |-> 0, d |-> 1]
FloatNaN == [k |-> "nan", n |-> 0, d |-> 1]

RECURSIVE GCD(_, _)
GCD(a, b) == IF b = 0 THEN a ELSE GCD(b, a % b)

Abs(x) == IF x < 0 THEN -x ELSE x

\* The float n/d, d # 0, in lowest terms with a positive denominator
Float(n, d) ==
    LET g == GCD(Abs(n), Abs(d))
        s == IF d < 0 THEN -1 ELSE 1
    IN [k |-> "num", n |-> s * (n \div g), d |-> s * (d \div g)]

IsNum(x) == x.k = "num"

\* pd.to_numeric(errors="coerce") of one cell
ToNumeric(c) ==
    CASE c.k = "str" -> Float(c.n, c.d)
      [] c.k = "num" -> c
      [] OTHER -> FloatNaN

\* Python float arithmetic on cells that to_numeric produced
FSub(a, b) ==
    IF IsNum(a) /\ IsNum(b) THEN Float(a.n * b.d - b.n * a.d, a.d * b.d) ELSE FloatNaN

\* What a Python float operation leaves when it raises instead of returning
ZeroDivisionError == [k |-> "ZeroDivisionError", n |-> 0, d |-> 1]

Raised(x) == x.k = "ZeroDivisionError"

\* a / b: Python raises ZeroDivisionError for b = 0.0, whatever a is
FDiv(a, b) ==
    IF IsNum(b) /\ b.n = 0 THEN ZeroDivisionError
    ELSE IF IsNum(a) /\ IsNum(b) THEN Float(a.n * b.d, a.d * b.n)
    ELSE FloatNaN

FMul(a, b) ==
    IF Raised(a) \/ Raised(b) THEN ZeroDivisionError
    ELSE IF IsNum(a) /\ IsNum(b) THEN Float(a.n * b.n, a.d * b.d)
    ELSE FloatNaN

\* float(x) != 0: true of nan
FNonZero(a) == ~(IsNum(a) /\ a.n = 0)

-----------------------------------------------------------------------------
(* Sequences *)

Range(s) == {s[i] : i \in DOMAIN s}

Reverse(s) == [i \in 1..Len(s) |-> s[Len(s) + 1 - i]]

RECURSIVE Concat(_)
Concat(ss) == IF ss = <<>> THEN <<>> ELSE Head(ss) \o Concat(Tail(ss))

\* The distinct values of s, in order of first appearance (Series.unique)
RECURSIVE Unique(_)
Unique(s) ==
    IF s = <<>> THEN <<>>
    ELSE LET init == Unique(SubSeq(s, 1, Len(s) - 1))
             last == s[Len(s)]
         IN IF last \in Range(init) THEN init ELSE Append(init, last)

\* The stable sort of a frame by its days_relative column (insertion sort, which
\* is how numpy's quicksort orders a short array)
RECURSIVE InsertByDays(_, _)
InsertByDays(r, s) ==
    IF s = <<>> THEN <<r>>
    ELSE IF r.days_relative < s[Len(s)].days_relative
         THEN Append(InsertByDays(r, SubSeq(s, 1, Len(s) - 1)), s[Len(s)])
         ELSE Append(s, r)

RECURSIVE StableSortByDays(_)
StableSortByDays(s) ==
    IF s = <<>> THEN <<>>
    ELSE InsertByDays(s[Len(s)], StableSortByDays(SubSeq(s, 1, Len(s) - 1)))

-----------------------------------------------------------------------------
(* Stage 1: create_medication_periods *)

\* Line 191: the start column through pd.to_datetime
StartConverted(df) == [i \in DOMAIN df |-> [df[i] EXCEPT !.start = ToDatetime(@)]]

\* Line 192: the stop column through pd.to_datetime
StopConverted(df) == [i \in DOMAIN df |-> [df[i] EXCEPT !.stop = ToDatetime(@)]]

\* Line 195: missing stop dates filled with pd.Timestamp.max
StopFilled(df) == [i \in DOMAIN df |-> [df[i] EXCEPT !.stop = FillNa(@)]]

create_medication_periods(df) == StopFilled(StopConverted(StartConverted(df)))

CreateMedicationPeriods ==
    /\ pc = "periods"
    /\ IF \E i \in DOMAIN medications_df : ToDatetimeRaises(medications_df[i].start)
       THEN /\ pc' = "raised"
            /\ UNCHANGED <<medications_df, medication_periods>>
       ELSE IF \E i \in DOMAIN medications_df : ToDatetimeRaises(medications_df[i].stop)
       THEN /\ pc' = "raised"
            /\ medications_df' = StartConverted(medications_df)
            /\ UNCHANGED medication_periods
       ELSE /\ pc' = "timeline"
            /\ medications_df' = create_medication_periods(medications_df)
            /\ medication_periods' = "medications_df"
    /\ UNCHANGED <<medications_csv, observations_csv, observations_df,
                   timeline_df, outcomes_df, sort_kind, run, first_run>>

-----------------------------------------------------------------------------
(* Stage 2: create_observation_timeline *)

\* Lines 218 and 221: the date column through pd.to_datetime, the value column
\* through pd.to_numeric(errors="coerce")
DateConverted(df) == [i \in DOMAIN df |-> [df[i] EXCEPT !.date = ToDatetime(@)]]

\* ValueConverted dropping the rows whose value is no number
ValueConvertedDropNa(df) ==
    SelectSeq([i \in DOMAIN df |-> [df[i] EXCEPT !.value = ToNumeric(@)]],
              LAMBDA r : IsNum(r.value))

ValueConverted(df) == [i \in DOMAIN df |-> [df[i] EXCEPT !.value = ToNumeric(@)]]

\* DaysRelative with the operands exchanged
DaysRelativeReversed(obs_date, med_start) == (med_start.t - obs_date.t) \div HoursPerDay

\* DaysRelative with the fraction of a day cut off toward zero
DaysRelativeTruncated(obs_date, med_start) ==
    IF obs_date.t >= med_start.t
    THEN (obs_date.t - med_start.t) \div HoursPerDay
    ELSE 0 - ((med_start.t - obs_date.t) \div HoursPerDay)

\* Line 246: (obs_date - med_start).days; Timedelta.days is the floor of the
\* difference in days.  Both cells are Timestamps (no NaT) in every table drawn here.
DaysRelative(obs_date, med_start) == (obs_date.t - med_start.t) \div HoursPerDay

\* Lines 249-260
TimelineRecord(patient, med_row, obs_row) ==
    [patient |-> patient,
     med_code |-> med_row.code,
     med_description |-> med_row.description,
     med_start_date |-> med_row.start,
     obs_code |-> obs_row.code,
     obs_description |-> obs_row.description,
     obs_date |-> obs_row.date,
     days_relative |-> DaysRelative(obs_row.date, med_row.start),
     value |-> obs_row.value,
     units |-> obs_row.units]

\* PatientTimeline joining only the observations from the period's start on
PatientTimelineInPeriod(patient, obs, meds) ==
    LET patient_obs == SelectSeq(obs, LAMBDA r : r.patient = patient)
        patient_meds == SelectSeq(meds, LAMBDA r : r.patient = patient)
    IN IF Len(patient_meds) = 0 THEN <<>>
       ELSE Concat([m \in 1..Len(patient_meds) |->
                LET in_period == SelectSeq(patient_obs,
                                     LAMBDA r : r.date.t >= patient_meds[m].start.t)
                IN [o \in 1..Len(in_period) |->
                       TimelineRecord(patient, patient_meds[m], in_period[o])]])

\* PatientTimeline pairing the patient's observations with every medication row
PatientTimelineAllMeds(patient, obs, meds) ==
    LET patient_obs == SelectSeq(obs, LAMBDA r : r.patient = patient)
    IN IF Len(meds) = 0 THEN <<>>
       ELSE Concat([m \in 1..Len(meds) |->
                [o \in 1..Len(patient_obs) |-> TimelineRecord(patient, meds[m], patient_obs[o])]])

\* Lines 228-262: the records of one patient of the observation table
PatientTimeline(patient, obs, meds) ==
    LET patient_obs == SelectSeq(obs, LAMBDA r : r.patient = patient)
        patient_meds == SelectSeq(meds, LAMBDA r : r.patient = patient)
    IN IF Len(patient_meds) = 0 THEN <<>>
       ELSE Concat([m \in 1..Len(patient_meds) |->
                [o \in 1..Len(patient_obs) |->
                    TimelineRecord(patient, patient_meds[m], patient_obs[o])]])

\* Lines 227-265, on the converted observation frame
create_observation_timeline(obs, meds) ==
    LET patients == Unique([i \in DOMAIN obs |-> obs[i].patient])
    IN Concat([p \in 1..Len(patients) |-> PatientTimeline(patients[p], obs, meds)])

\* IsEmpty never true (the guards of lines 213 and 279 left out)
IsEmptyNever(df) == FALSE

\* DataFrame.empty, lines 213 and 279
IsEmpty(df) == df = <<>>

\* The frame object a name of main is bound to
Frame(name) == IF name = "medications_df" THEN medications_df ELSE <<>>

CreateObservationTimeline ==
    /\ pc = "timeline"
    /\ LET medication_periods_df == Frame(medication_periods)
       IN IF IsEmpty(observations_df) \/ IsEmpty(medication_periods_df)
          THEN /\ pc' = "outcomes"
               /\ timeline_df' = <<>>
               /\ UNCHANGED observations_df
          ELSE IF \E i \in DOMAIN observations_df : ToDatetimeRaises(observations_df[i].date)
          THEN /\ pc' = "raised"
               /\ UNCHANGED <<observations_df, timeline_df>>
          ELSE /\ pc' = "outcomes"
               /\ observations_df' = ValueConverted(DateConverted(observations_df))
               /\ timeline_df' = create_observation_timeline(observations_df', medication_periods_df)
    /\ UNCHANGED <<medications_csv, observations_csv, medications_df,
                   medication_periods, outcomes_df, sort_kind, run, first_run>>

-----------------------------------------------------------------------------
(* Stage 3: create_patient_medication_outcomes *)

\* The strings of the tables in their sort order, which is the order groupby
\* yields its keys in
StrOrder == <<"D1", "D2", "M1", "M2", "P1", "P2", "X", "Y">>

Rank(s) == CHOOSE i \in DOMAIN StrOrder : StrOrder[i] = s

\* Tuples of strings of one length, compared as Python compares tuples
RECURSIVE KeyLess(_, _)
KeyLess(a, b) ==
    IF a = <<>> THEN FALSE
    ELSE IF Head(a) # Head(b) THEN Rank(Head(a)) < Rank(Head(b))
    ELSE KeyLess(Tail(a), Tail(b))

RECURSIVE SortedKeys(_)
SortedKeys(S) ==
    IF S = {} THEN <<>>
    ELSE LET least == CHOOSE a \in S : \A b \in S \ {a} : KeyLess(a, b)
         IN <<least>> \o SortedKeys(S \ {least})

\* Line 290: groupby(["patient", "med_code", "med_description"]) leaves out every
\* row with a missing key (dropna is True by default) and yields the groups in key
\* order, each with its rows in frame order
MedKey(r) == <<r.patient, r.med_code, r.med_description>>

HasMissing(key) == \E i \in DOMAIN key : IsNaN(key[i])

MedGroupKeys(df) == SortedKeys({MedKey(r) : r \in {x \in Range(df) : ~HasMissing(MedKey(x))}})

MedGroup(df, key) == SelectSeq(df, LAMBDA r : MedKey(r) = key)

\* Line 292: groupby("obs_code"), likewise
ObsKey(r) == <<r.obs_code>>

ObsGroupKeys(group) == SortedKeys({ObsKey(r) : r \in {x \in Range(group) : ~HasMissing(ObsKey(x))}})

\* ObsGroup without the selection by metric code
ObsGroupOfAllCodes(group, key) == group

ObsGroup(group, key) == SelectSeq(group, LAMBDA r : ObsKey(r) = key)

\* Line 302: sort_values("days_relative") with the default quicksort, which does
\* not promise the order of rows with equal keys: the build keeps them in frame
\* order or not
SortValues(obs_group) ==
    IF sort_kind = "stable" THEN StableSortByDays(obs_group)
    ELSE StableSortByDays(Reverse(obs_group))

\* Line 305
PreMed(sorted) == SelectSeq(sorted, LAMBDA r : r.days_relative <= 0)

\* PreRow taking the first row of pre_med (iloc[0]) instead of the last
PreRowFirst(pre_med) == pre_med[1]

\* Lines 307-308: pre_med.iloc[-1]
PreRow(pre_med) == pre_med[Len(pre_med)]

\* PostMed without the days_relative > 0 filter
PostMedAll(sorted) == sorted

\* Line 313
PostMed(sorted) == SelectSeq(sorted, LAMBDA r : r.days_relative > 0)

\* Line 316
target_days == 180

\* Line 317
DaysDiff(r) == Abs(r.days_relative - target_days)

\* IdxMin taking the first post row, the earliest after the start
IdxMinFirstRow(post_med) == 1

\* IdxMin taking the last of the rows that attain the minimum
IdxMinLast(post_med) ==
    CHOOSE i \in DOMAIN post_med :
        /\ \A j \in DOMAIN post_med : DaysDiff(post_med[i]) <= DaysDiff(post_med[j])
        /\ \A j \in (i + 1)..Len(post_med) : DaysDiff(post_med[j]) > DaysDiff(post_med[i])

\* Line 318: idxmin is the label of the first row that attains the minimum; the
\* labels of a group are distinct, so .loc[closest_idx] is that row
IdxMin(post_med) ==
    CHOOSE i \in DOMAIN post_med :
        /\ \A j \in DOMAIN post_med : DaysDiff(post_med[i]) <= DaysDiff(post_med[j])
        /\ \A j \in 1..(i - 1) : DaysDiff(post_med[j]) > DaysDiff(post_med[i])

\* Change with the operands exchanged
ChangeSwapped(pre_value, post_value) == FSub(pre_value, post_value)

\* Line 327
Change(pre_value, post_value) == FSub(post_value, pre_value)

\* PercentChange without the test for a zero pre_value
PercentChangeUnguarded(change, pre_value) == FMul(FDiv(change, pre_value), Float(100, 1))

\* Line 328
PercentChange(change, pre_value) ==
    IF FNonZero(pre_value) THEN FMul(FDiv(change, pre_value), Float(100, 1)) ELSE FloatNaN

\* Lines 293-351: the records one (medication, metric) group appends
ResolveGroup(key, obs_code, obs_group) ==
    IF Len(obs_group) < 2 THEN <<>>
    ELSE LET sorted == SortValues(obs_group)
             pre_med == PreMed(sorted)
             post_med == PostMed(sorted)
         IN IF Len(pre_med) = 0 THEN <<>>
            ELSE IF Len(post_med) = 0 THEN <<>>
            ELSE LET pre == PreRow(pre_med)
                     post == post_med[IdxMin(post_med)]
                     change == Change(pre.value, post.value)
                 IN << [patient |-> key[1],
                        med_code |-> key[2],
                        med_description |-> key[3],
                        obs_code |-> obs_code,
                        obs_description |-> obs_group[1].obs_description,
                        pre_value |-> pre.value,
                        post_value |-> post.value,
                        change |-> change,
                        percent_change |-> PercentChange(change, pre.value),
                        pre_date |-> pre.obs_date,
                        post_date |-> post.obs_date,
                        days_between |-> post.days_relative,
                        units |-> obs_group[1].units] >>

\* Lines 290-354, on the timeline with its value column converted
create_patient_medication_outcomes(df) ==
    LET keys == MedGroupKeys(df)
    IN Concat([g \in 1..Len(keys) |->
            LET group == MedGroup(df, keys[g])
                codes == ObsGroupKeys(group)
            IN Concat([c \in 1..Len(codes) |->
                    ResolveGroup(keys[g], codes[c][1], ObsGroup(group, codes[c]))])])

CreatePatientMedicationOutcomes ==
    /\ pc = "outcomes"
    /\ IF IsEmpty(timeline_df)
       THEN /\ pc' = "done"
            /\ outcomes_df' = <<>>
            /\ UNCHANGED timeline_df
       ELSE IF timeline_df = <<>>
       THEN \* a frame built from no records has no columns: line 284 raises KeyError
            /\ pc' = "raised"
            /\ UNCHANGED <<timeline_df, outcomes_df>>
       ELSE /\ timeline_df' = ValueConverted(timeline_df)
            /\ LET records == create_patient_medication_outcomes(timeline_df')
               IN IF \E i \in DOMAIN records : Raised(records[i].percent_change)
                  THEN /\ pc' = "raised"
                       /\ UNCHANGED outcomes_df
                  ELSE /\ pc' = "done"
                       /\ outcomes_df' = records
    /\ UNCHANGED <<medications_csv, observations_csv, medications_df, observations_df,
                   medication_periods, sort_kind, run, first_run>>

-----------------------------------------------------------------------------
(* main, lines 436-442 *)

Next ==
    \/ CreateMedicationPeriods
    \/ CreateObservationTimeline
    \/ CreatePatientMedicationOutcomes

\* The tables of at most max rows drawn from rows
Tables(rows, max) == UNION {[1..n -> rows] : n \in 0..max}

InitWith(med_tables, obs_tables, kinds) ==
    /\ medications_csv \in med_tables
    /\ observations_csv \in obs_tables
    /\ medications_df = medications_csv
    /\ observations_df = observations_csv
    /\ medication_periods = "none"
    /\ timeline_df = <<>>
    /\ outcomes_df = <<>>
    /\ sort_kind \in kinds
    /\ pc = "periods"
    /\ run = 1
    /\ first_run = [timeline_df |-> <<>>, outcomes_df |-> <<>>]

MedRow(patient, code, description, start, stop) ==
    [patient |-> patient, code |-> code, description |-> description,
     start |-> start, stop |-> stop]

ObsRow(patient, code, date, value) ==
    [patient |-> patient, code |-> code, description |-> "Metric",
     date |-> date, value |-> value, units |-> "unit"]

SortKinds == {"stable", "unstable"}

-----------------------------------------------------------------------------
(* Cohort: two patients, each with any rows of either table; calendar dates *)

MaxMeds == 2
MaxObs == 2

CohortMedRows ==
    {MedRow(p, "M1", "D1", DateOnly(day), stop) :
        p \in {"P1", "P2"}, day \in {10, 12}, stop \in {NoDate, DateOnly(11)}}

CohortObsRows ==
    {ObsRow(p, "X", DateOnly(day), StrNum(5)) : p \in {"P1", "P2"}, day \in {9, 12}}

Init == InitWith(Tables(CohortMedRows, MaxMeds), Tables(CohortObsRows, MaxObs), SortKinds)

Spec == Init /\ [][Next]_vars

-----------------------------------------------------------------------------
(* Properties of the timeline *)

TimelineBuilt == pc \in {"outcomes", "done"}

\* The pairs (medication row, observation row) of one patient, by row position
PatientPairs ==
    {ij \in (DOMAIN medications_csv) \X (DOMAIN observations_csv) :
        medications_csv[ij[1]].patient = observations_csv[ij[2]].patient}

\* Timeline record r is the record of medication row m and observation row o
RecordOfPair(r, m, o) ==
    /\ r.patient = m.patient /\ r.patient = o.patient
    /\ r.med_code = m.code /\ r.med_description = m.description
    /\ r.med_start_date.k = "ts" /\ r.med_start_date.t = m.start.t
    /\ r.obs_code = o.code /\ r.obs_description = o.description
    /\ r.obs_date.k = "ts" /\ r.obs_date.t = o.date.t
    /\ r.units = o.units
    /\ r.value.k \in {"num", "nan"}
    /\ (o.value.k = "str" => r.value.k = "num" /\ r.value.n * o.value.d = o.value.n * r.value.d)
    /\ (o.value.k # "str" => r.value.k = "nan")

\* Two pairs that no timeline record tells apart
SamePair(ij, kl) ==
    /\ medications_csv[ij[1]].patient = medications_csv[kl[1]].patient
    /\ medications_csv[ij[1]].code = medications_csv[kl[1]].code
    /\ medications_csv[ij[1]].description = medications_csv[kl[1]].description
    /\ medications_csv[ij[1]].start = medications_csv[kl[1]].start
    /\ observations_csv[ij[2]] = observations_csv[kl[2]]

\* C1: once the timeline is built it holds exactly one record for each
\* (medication row, observation row) pair of a patient of both tables, whether or
\* not the observation lies in the period, and nothing else: its length is the
\* number of such pairs, and the record's days_relative is the observation date
\* minus the period's start date in whole days (calendar dates, so the
\* difference in hours is days_relative * 24), negative, zero or positive.
C1_CrossProduct ==
    TimelineBuilt =>
        /\ Len(timeline_df) = Cardinality(PatientPairs)
        /\ \A ij \in PatientPairs :
              LET m == medications_csv[ij[1]]
                  o == observations_csv[ij[2]]
                  records == {k \in DOMAIN timeline_df : RecordOfPair(timeline_df[k], m, o)}
              IN /\ Cardinality(records) = Cardinality({kl \in PatientPairs : SamePair(ij, kl)})
                 /\ \A k \in records :
                       timeline_df[k].days_relative * HoursPerDay = o.date.t - m.start.t

\* A patient with two periods and two observations, one observation before both
\* starts and outside the closed first period, one on a start day and one after
C1_Witness ==
    /\ TimelineBuilt
    /\ Len(timeline_df) = 4
    /\ \E k \in DOMAIN timeline_df : timeline_df[k].days_relative < 0
    /\ \E k \in DOMAIN timeline_df : timeline_df[k].days_relative = 0
    /\ \E k \in DOMAIN timeline_df :
          /\ timeline_df[k].days_relative > 0
          /\ \E i \in DOMAIN medications_df :
                /\ medications_df[i].start = timeline_df[k].med_start_date
                /\ medications_df[i].stop.t <= timeline_df[k].obs_date.t

-----------------------------------------------------------------------------
(* Selection: one patient on one drug, observations of one metric at chosen     *)
(* offsets from the start; the value tells the observations apart               *)

MaxSelMeds == 1
MaxSelObs == 5

StartDay == 1000

SelectOffsets == {-31, 0, 10, 175, 185, 400}

SelectMedRows == {MedRow("P1", "M1", "D1", DateOnly(StartDay), NoDate)}

SelectObsRows ==
    {ObsRow("P1", "X", DateOnly(StartDay + off), StrNum(off + 50)) : off \in SelectOffsets}
        \cup {ObsRow("P1", "X", DateOnly(StartDay), StrNum(7))}

\* The tables of at most max rows drawn from rows, no row twice
DistinctTables(rows, max) ==
    {t \in Tables(rows, max) : \A i, j \in DOMAIN t : t[i] = t[j] => i = j}

InitSelect ==
    InitWith(Tables(SelectMedRows, MaxSelMeds), DistinctTables(SelectObsRows, MaxSelObs),
             SortKinds)

SpecSelect == InitSelect /\ [][Next]_vars

-----------------------------------------------------------------------------
(* Groups: one patient, two drugs whose description may be missing, two         *)
(* metrics (the metric filter upstream of main's line 436 passes no row with a  *)
(* missing code), distinct observations one day before and five days after the  *)
(* start                                                                        *)

MaxGrpMeds == 2
MaxGrpObs == 4

GroupMedRows ==
    {MedRow("P1", code, desc, DateOnly(StartDay), NoDate) :
        code \in {"M1", "M2"}, desc \in {"D1", NaN}}

GroupObsRows ==
    {ObsRow("P1", code, DateOnly(StartDay + off), StrNum(5)) :
        code \in {"X", "Y"}, off \in {-1, 5}}

InitGroups ==
    InitWith(Tables(GroupMedRows, MaxGrpMeds), DistinctTables(GroupObsRows, MaxGrpObs),
             SortKinds)

SpecGroups == InitGroups /\ [][Next]_vars

-----------------------------------------------------------------------------
(* Values: one patient on one drug, observations of one metric whose value is   *)
(* a number (zero, positive or negative), text that is no number, or missing    *)

MaxValMeds == 1
MaxValObs == 3

ValueCells == {StrNum(0), StrNum(7), StrNum(9), StrNum(-3), TextValue, NoValue}

ValueObsRows ==
    {ObsRow("P1", "X", DateOnly(StartDay + off), v) : off \in {-1, 5}, v \in ValueCells}

InitValues ==
    InitWith(Tables(SelectMedRows, MaxValMeds), Tables(ValueObsRows, MaxValObs), SortKinds)

SpecValues == InitValues /\ [][Next]_vars

-----------------------------------------------------------------------------
(* Periods: medication rows with a stop date that is missing, after the start,  *)
(* before the start or no date at all, and a start that may be no date          *)

MaxPerMeds == 2
MaxPerObs == 1

PeriodMedRows ==
    {MedRow(p, "M1", "D1", start, stop) :
        p \in {"P1", "P2"},
        start \in {DateOnly(10), BadDate},
        stop \in {NoDate, DateOnly(11), DateOnly(9), BadDate}}

PeriodObsRows == {ObsRow("P1", "X", DateOnly(12), StrNum(5))}

InitPeriods ==
    InitWith(Tables(PeriodMedRows, MaxPerMeds), Tables(PeriodObsRows, MaxPerObs), SortKinds)

SpecPeriods == InitPeriods /\ [][Next]_vars

-----------------------------------------------------------------------------
(* Properties of the outcomes *)

\* The key of an outcome group
GroupKey(r) == <<r.patient, r.med_code, r.med_description, r.obs_code>>

\* The timeline records of the group of key
GroupRecords(key) == {timeline_df[k] : k \in {i \in DOMAIN timeline_df : GroupKey(timeline_df[i]) = key}}

PreCandidates(key) == {r \in GroupRecords(key) : r.days_relative <= 0}

PostCandidates(key) == {r \in GroupRecords(key) : r.days_relative > 0}

\* How far an offset is from day 180
DistanceOf(days) == IF days >= 180 THEN days - 180 ELSE 180 - days

Distance(r) == DistanceOf(r.days_relative)

\* C2: the pre data point of every outcome record is a record of its group with
\* days_relative <= 0, and no record of the group with days_relative <= 0 has a
\* larger days_relative.
C2_PreSelection ==
    pc = "done" =>
        \A i \in DOMAIN outcomes_df :
            LET out == outcomes_df[i]
            IN \E r \in PreCandidates(GroupKey(out)) :
                  /\ out.pre_value = r.value
                  /\ out.pre_date = r.obs_date
                  /\ \A s \in PreCandidates(GroupKey(out)) : s.days_relative <= r.days_relative

\* An outcome whose group has two pre candidates at different offsets
C2_Witness ==
    /\ pc = "done"
    /\ \E i \in DOMAIN outcomes_df :
          /\ \E r, s \in PreCandidates(GroupKey(outcomes_df[i])) : r.days_relative < s.days_relative
          /\ outcomes_df[i].pre_date.t = StartDay * HoursPerDay

\* C3: the post data point of every outcome record is a record of its group with
\* days_relative > 0, no record of the group with days_relative > 0 is closer to
\* day 180, and days_between is that record's days_relative, so it is positive.
C3_PostSelection ==
    pc = "done" =>
        \A i \in DOMAIN outcomes_df :
            LET out == outcomes_df[i]
            IN /\ out.days_between > 0
               /\ \E r \in PostCandidates(GroupKey(out)) :
                     /\ out.post_value = r.value
                     /\ out.post_date = r.obs_date
                     /\ out.days_between = r.days_relative
                     /\ \A s \in PostCandidates(GroupKey(out)) : Distance(r) <= Distance(s)

\* An outcome whose post is neither the earliest nor the latest post candidate
C3_Witness ==
    /\ pc = "done"
    /\ \E i \in DOMAIN outcomes_df :
          \E r, s \in PostCandidates(GroupKey(outcomes_df[i])) :
              r.days_relative < outcomes_df[i].days_between
                  /\ outcomes_df[i].days_between < s.days_relative

\* C4: of the post candidates of a group that are equally close to day 180, the
\* one with the smaller offset is selected, whatever the row order of the tables
\* and the order the sort leaves equal keys in; of the offsets {10, 175, 185, 400}
\* it is 175.
C4_TieBreak ==
    pc = "done" =>
        \A i \in DOMAIN outcomes_df :
            LET out == outcomes_df[i]
                post == PostCandidates(GroupKey(out))
            IN /\ \A s \in post :
                     Distance(s) = DistanceOf(out.days_between)
                         => out.days_between <= s.days_relative
               /\ {s.days_relative : s \in post} = {10, 175, 185, 400} => out.days_between = 175

\* The post candidates are exactly at 10, 175, 185 and 400, in an order of the
\* observation table where 185 precedes 175
C4_Witness ==
    /\ pc = "done"
    /\ \E i \in DOMAIN outcomes_df :
          /\ {s.days_relative : s \in PostCandidates(GroupKey(outcomes_df[i]))} = {10, 175, 185, 400}
          /\ outcomes_df[i].days_between = 175
    /\ \E a, b \in DOMAIN observations_df :
          /\ a < b
          /\ observations_df[a].date.t = (StartDay + 185) * HoursPerDay
          /\ observations_df[b].date.t = (StartDay + 175) * HoursPerDay

\* The keys of the groups the timeline holds
TimelineKeys == {GroupKey(timeline_df[k]) : k \in DOMAIN timeline_df}

OutcomesOf(key) == {i \in DOMAIN outcomes_df : GroupKey(outcomes_df[i]) = key}

\* C5: no stage raises, and a group without a record with days_relative <= 0 or
\* without a record with days_relative > 0 has no outcome record.
C5_SkipPolicy ==
    /\ pc # "raised"
    /\ pc = "done" =>
          \A key \in TimelineKeys :
              PreCandidates(key) = {} \/ PostCandidates(key) = {} => OutcomesOf(key) = {}

\* A group of two or more records, all of them after the start, and no outcome
C5_Witness ==
    /\ pc = "done"
    /\ outcomes_df = <<>>
    /\ \E key \in TimelineKeys :
          /\ PreCandidates(key) = {}
          /\ Cardinality(PostCandidates(key)) >= 2

\* C6 as claimed: every key of the timeline, a missing description or metric code
\* included, has at most one outcome record, and exactly one when its records
\* hold a days_relative <= 0 and a days_relative > 0.
C6_Emission ==
    pc = "done" =>
        \A key \in TimelineKeys :
            /\ Cardinality(OutcomesOf(key)) <= 1
            /\ PreCandidates(key) # {} /\ PostCandidates(key) # {}
                  => Cardinality(OutcomesOf(key)) = 1

\* What the code does emit: the same, for the keys with no missing field
EmissionOfCompleteKeys ==
    pc = "done" =>
        \A key \in TimelineKeys :
            /\ Cardinality(OutcomesOf(key)) <= 1
            /\ ~HasMissing(key) /\ PreCandidates(key) # {} /\ PostCandidates(key) # {}
                  => Cardinality(OutcomesOf(key)) = 1
            /\ HasMissing(key) => OutcomesOf(key) = {}

\* C7: in every outcome record with numeric pre and post values and a pre value
\* other than 0, change is post_value - pre_value and percent_change is
\* change / pre_value * 100, as exact rationals.
C7_ChangeAndPercent ==
    pc = "done" =>
        \A i \in DOMAIN outcomes_df :
            LET out == outcomes_df[i]
                pre == out.pre_value
                post == out.post_value
            IN IsNum(pre) /\ IsNum(post) /\ pre.n # 0 =>
                  /\ IsNum(out.change)
                  /\ out.change.n * pre.d * post.d = (post.n * pre.d - pre.n * post.d) * out.change.d
                  /\ IsNum(out.percent_change)
                  /\ out.percent_change.n * out.change.d * pre.n
                        = 100 * out.change.n * pre.d * out.percent_change.d

\* An outcome from 9 down to 7: change -2, percent_change -200/9
C7_Witness ==
    /\ pc = "done"
    /\ \E i \in DOMAIN outcomes_df :
          /\ outcomes_df[i].pre_value = Float(9, 1)
          /\ outcomes_df[i].post_value = Float(7, 1)
          /\ outcomes_df[i].change = Float(-2, 1)
          /\ outcomes_df[i].percent_change = Float(-200, 9)

\* The pre candidates of a group closest to the start
ClosestPre(key) ==
    {r \in PreCandidates(key) : \A s \in PreCandidates(key) : s.days_relative <= r.days_relative}

\* C8: no stage raises; a group whose pre candidates closest to the start all
\* have the value 0 still has its outcome record; and an outcome record with
\* pre_value 0 and a nonzero numeric post_value has the undefined percent_change
\* (no number, so neither zero nor infinite) and change = post_value.
C8_ZeroPre ==
    /\ pc # "raised"
    /\ pc = "done" =>
          /\ \A key \in TimelineKeys :
                /\ PostCandidates(key) # {} /\ ClosestPre(key) # {}
                /\ \A r \in ClosestPre(key) : r.value = Float(0, 1)
                => /\ OutcomesOf(key) # {}
                   /\ \A i \in OutcomesOf(key) : outcomes_df[i].pre_value = Float(0, 1)
          /\ \A i \in DOMAIN outcomes_df :
                LET out == outcomes_df[i]
                IN out.pre_value = Float(0, 1) /\ IsNum(out.post_value) /\ out.post_value.n # 0
                      => /\ out.percent_change = FloatNaN
                         /\ out.change = out.post_value

\* An outcome from 0 to 7
C8_Witness ==
    /\ pc = "done"
    /\ \E i \in DOMAIN outcomes_df :
          /\ outcomes_df[i].pre_value = Float(0, 1)
          /\ outcomes_df[i].post_value = Float(7, 1)
          /\ outcomes_df[i].change = Float(7, 1)
          /\ outcomes_df[i].percent_change = FloatNaN

\* C9: no stage raises; an observation whose value is no number has its timeline
\* records like any other (the timeline has one record per pair), with the
\* undefined value; the pre and post data points are selected by days_relative
\* among all records of the group, those included; a group with a pre and a post
\* candidate has its outcome record; and an outcome record whose pre or post
\* value is undefined has change and percent_change undefined.
C9_NonNumeric ==
    /\ pc # "raised"
    /\ TimelineBuilt =>
          /\ Len(timeline_df) = Cardinality(PatientPairs)
          /\ \A ij \in PatientPairs :
                LET m == medications_csv[ij[1]]
                    o == observations_csv[ij[2]]
                IN o.value.k # "str" =>
                      \E k \in DOMAIN timeline_df :
                          RecordOfPair(timeline_df[k], m, o) /\ timeline_df[k].value.k = "nan"
    /\ pc = "done" =>
          /\ \A key \in TimelineKeys :
                PreCandidates(key) # {} /\ PostCandidates(key) # {} => OutcomesOf(key) # {}
          /\ \A i \in DOMAIN outcomes_df :
                LET out == outcomes_df[i]
                IN /\ \E r \in ClosestPre(GroupKey(out)) :
                         out.pre_value = r.value /\ out.pre_date = r.obs_date
                   /\ \E r \in PostCandidates(GroupKey(out)) :
                         /\ out.post_value = r.value /\ out.post_date = r.obs_date
                         /\ \A s \in PostCandidates(GroupKey(out)) : Distance(r) <= Distance(s)
                   /\ ~IsNum(out.pre_value) \/ ~IsNum(out.post_value)
                         => out.change = FloatNaN /\ out.percent_change = FloatNaN

\* The only pre candidate is text that is no number, the post is 7: the outcome
\* is emitted with both derived fields undefined
C9_Witness ==
    /\ pc = "done"
    /\ \E j \in DOMAIN observations_csv : observations_csv[j].value = TextValue
    /\ \E i \in DOMAIN outcomes_df :
          /\ Cardinality(PreCandidates(GroupKey(outcomes_df[i]))) = 1
          /\ outcomes_df[i].pre_value = FloatNaN
          /\ outcomes_df[i].post_value = Float(7, 1)
          /\ outcomes_df[i].change = FloatNaN
          /\ outcomes_df[i].percent_change = FloatNaN

-----------------------------------------------------------------------------
(* Properties of the medication periods *)

PeriodsReturned == pc \in {"timeline", "outcomes", "done"}

\* C10: when create_medication_periods returns, the frame main holds as
\* medication_periods has one row per medication row handed in, in the same
\* order; patient, code and description are as handed in, start is the same
\* instant, and stop is pd.Timestamp.max where the row had no stop and the row's
\* stop instant otherwise.
C10_Periods ==
    PeriodsReturned =>
        LET periods == Frame(medication_periods)
        IN /\ Len(periods) = Len(medications_csv)
           /\ \A i \in DOMAIN medications_csv :
                 LET m == medications_csv[i]
                     period == periods[i]
                 IN /\ period.patient = m.patient
                    /\ period.code = m.code
                    /\ period.description = m.description
                    /\ period.start.k = "ts" /\ period.start.t = m.start.t
                    /\ period.stop.k = "ts"
                    /\ m.stop.k = "NaN" => period.stop.t = 106751 * 24 + 23
                    /\ m.stop.k # "NaN" => period.stop.t = m.stop.t

\* Two rows of one patient with the same start, the first open-ended, the second
\* stopped before its start
C10_Witness ==
    /\ PeriodsReturned
    /\ Len(medications_csv) = 2
    /\ medications_csv[1].patient = medications_csv[2].patient
    /\ medications_csv[1].stop = NoDate
    /\ medications_csv[2].stop = DateOnly(9)
    /\ medications_df[1].stop = TimestampMax
    /\ medications_df[2].stop = Timestamp(9 * HoursPerDay)

-----------------------------------------------------------------------------
(* Properties of patients with several periods, and of patients of one table *)

\* The medication periods an outcome record can stem from
PeriodsOf(out) ==
    {i \in DOMAIN medications_df :
        /\ medications_df[i].patient = out.patient
        /\ medications_df[i].code = out.med_code
        /\ medications_df[i].description = out.med_description}

\* C11 as claimed: the pre and the post data point of every outcome record are
\* offsets against the start of one and the same period of its drug: some period
\* starts on or after pre_date and before post_date, and days_between is the
\* post date's offset from that start.
C11_PeriodIndependence ==
    pc = "done" =>
        \A i \in DOMAIN outcomes_df :
            LET out == outcomes_df[i]
            IN \E m \in PeriodsOf(out) :
                  /\ out.pre_date.t <= medications_df[m].start.t
                  /\ medications_df[m].start.t < out.post_date.t
                  /\ out.days_between * HoursPerDay = out.post_date.t - medications_df[m].start.t

MedPatients == {medications_csv[i].patient : i \in DOMAIN medications_csv}

ObsPatients == {observations_csv[j].patient : j \in DOMAIN observations_csv}

\* C12: every timeline record, and so every outcome record, is of a patient who
\* has a row in the medication table and a row in the observation table; a
\* patient with observations and no medication has none.
C12_PatientsOfBothTables ==
    /\ TimelineBuilt =>
          \A k \in DOMAIN timeline_df :
              timeline_df[k].patient \in MedPatients \cap ObsPatients
    /\ pc = "done" =>
          \A i \in DOMAIN outcomes_df :
              outcomes_df[i].patient \in MedPatients \cap ObsPatients

\* One patient has observations and no medication, the other has both and has
\* timeline records
C12_Witness ==
    /\ pc = "done"
    /\ timeline_df # <<>>
    /\ ObsPatients \ MedPatients # {}

\* C13: no stage raises; with an empty medication table or an empty observation
\* table the timeline is empty; and an empty timeline, the one of two tables with
\* no patient in common included, gives empty outcomes.
C13_EmptyInput ==
    /\ pc # "raised"
    /\ TimelineBuilt /\ (medications_csv = <<>> \/ observations_csv = <<>>) => timeline_df = <<>>
    /\ TimelineBuilt /\ MedPatients \cap ObsPatients = {} => timeline_df = <<>>
    /\ pc = "done" /\ timeline_df = <<>> => outcomes_df = <<>>

\* Both tables have rows, of different patients, and the run ends with an empty
\* timeline and empty outcomes
C13_Witness ==
    /\ pc = "done"
    /\ medications_csv # <<>> /\ observations_csv # <<>>
    /\ MedPatients \cap ObsPatients = {}
    /\ timeline_df = <<>> /\ outcomes_df = <<>>

-----------------------------------------------------------------------------
(* Scenario: patient P1 on drug M1 from 2020-01-01, observations of metric X    *)
(* with value 9 or 7 on 2019-12-01, 2020-01-01 or 2020-07-01                    *)

MaxScnMeds == 1
MaxScnObs == 2

ScenarioMedRows == {MedRow("P1", "M1", "D1", CalendarDate(2020, 1, 1), NoDate)}

ScenarioObsRows ==
    {ObsRow("P1", "X", date, StrNum(v)) :
        date \in {CalendarDate(2019, 12, 1), CalendarDate(2020, 1, 1), CalendarDate(2020, 7, 1)},
        v \in {9, 7}}

InitScenario ==
    InitWith(Tables(ScenarioMedRows, MaxScnMeds), Tables(ScenarioObsRows, MaxScnObs), SortKinds)

SpecScenario == InitScenario /\ [][Next]_vars

\* The tables of the end-to-end scenario, the two observations in either order
ScenarioInput ==
    /\ medications_csv = <<MedRow("P1", "M1", "D1", CalendarDate(2020, 1, 1), NoDate)>>
    /\ Len(observations_csv) = 2
    /\ Range(observations_csv) =
          {ObsRow("P1", "X", CalendarDate(2019, 12, 1), StrNum(9)),
           ObsRow("P1", "X", CalendarDate(2020, 7, 1), StrNum(7))}

\* C14: on the scenario's tables the timeline holds the two observations at
\* days_relative -31 and 182, and the run ends with exactly one outcome record:
\* pre 9 on 2019-12-01, post 7 on 2020-07-01, change -2, percent_change -200/9,
\* days_between 182.
C14_Scenario ==
    ScenarioInput =>
        /\ pc # "raised"
        /\ TimelineBuilt =>
              {<<timeline_df[k].obs_date, timeline_df[k].days_relative>> : k \in DOMAIN timeline_df}
                  = {<<Timestamp(DayNumber(2019, 12, 1) * 24), -31>>,
                     <<Timestamp(DayNumber(2020, 7, 1) * 24), 182>>}
        /\ pc = "done" =>
              /\ Len(outcomes_df) = 1
              /\ outcomes_df[1].patient = "P1"
              /\ outcomes_df[1].med_code = "M1"
              /\ outcomes_df[1].obs_code = "X"
              /\ outcomes_df[1].pre_value = Float(9, 1)
              /\ outcomes_df[1].pre_date = Timestamp(DayNumber(2019, 12, 1) * 24)
              /\ outcomes_df[1].post_value = Float(7, 1)
              /\ outcomes_df[1].post_date = Timestamp(DayNumber(2020, 7, 1) * 24)
              /\ outcomes_df[1].change = Float(-2, 1)
              /\ outcomes_df[1].percent_change = Float(-200, 9)
              /\ outcomes_df[1].days_between = 182

\* The scenario has run to its end
C14_Witness == ScenarioInput /\ pc = "done" /\ Len(outcomes_df) = 1

-----------------------------------------------------------------------------
(* Properties of the stages as functions of their arguments *)

\* C15 as claimed: no step of the pipeline writes to a frame it was handed (the
\* medication table, the observation table, the timeline handed to the resolver),
\* and the frame create_medication_periods returns is not the frame it was
\* handed.
C15_Purity ==
    [][/\ medications_df' = medications_df
       /\ observations_df' = observations_df
       /\ pc = "outcomes" => timeline_df' = timeline_df
       /\ medication_periods' # "medications_df"]_vars

-----------------------------------------------------------------------------
(* Two runs: after the first run main's lines 436-442 run again on the same     *)
(* frame objects, which the first run has written to                            *)

Rerun ==
    /\ pc = "done"
    /\ run = 1
    /\ run' = 2
    /\ first_run' = [timeline_df |-> timeline_df, outcomes_df |-> outcomes_df]
    /\ pc' = "periods"
    /\ medication_periods' = "none"
    /\ timeline_df' = <<>>
    /\ outcomes_df' = <<>>
    /\ UNCHANGED <<medications_csv, observations_csv, medications_df, observations_df,
                   sort_kind>>

NextRerun == Next \/ Rerun

MaxRunMeds == 1
MaxRunObs == 3

RerunObsRows ==
    {ObsRow("P1", "X", DateOnly(StartDay + off), v) :
        off \in {-1, 5}, v \in {StrNum(7), StrNum(9), TextValue}}

InitRerun ==
    InitWith(Tables(SelectMedRows, MaxRunMeds), Tables(RerunObsRows, MaxRunObs), SortKinds)

SpecRerun == InitRerun /\ [][NextRerun]_vars

\* C16: the second run of the pipeline on the frames the first run was given
\* does not raise and ends with the timeline and the outcomes the first run
\* ended with, record for record in the same order.
C16_Idempotence ==
    run = 2 =>
        /\ pc # "raised"
        /\ pc = "done" =>
              /\ timeline_df = first_run.timeline_df
              /\ outcomes_df = first_run.outcomes_df

\* The second run has ended with an outcome record, on a table with a value that
\* is no number and two observations of one day
C16_Witness ==
    /\ run = 2
    /\ pc = "done"
    /\ outcomes_df # <<>>
    /\ \E j \in DOMAIN observations_csv : observations_csv[j].value = TextValue
    /\ \E j, k \in DOMAIN observations_csv :
          j # k /\ observations_csv[j].date = observations_csv[k].date

-----------------------------------------------------------------------------
(* Properties of tables with a malformed row *)

MalformedMed(m) == m.start.k = "bad" \/ m.stop.k = "bad"

MalformedObs(o) == o.date.k = "bad"

\* C17 as claimed: no stage raises, whatever rows are malformed, and the timeline
\* is the one of the tables without their malformed rows: one record for each
\* pair of a well-formed medication row and a well-formed observation row of one
\* patient.
C17_FailureIsolation ==
    /\ pc # "raised"
    /\ TimelineBuilt =>
          /\ Len(timeline_df) =
                Cardinality({ij \in PatientPairs :
                    /\ ~MalformedMed(medications_csv[ij[1]])
                    /\ ~MalformedObs(observations_csv[ij[2]])})
          /\ \A ij \in PatientPairs :
                /\ ~MalformedMed(medications_csv[ij[1]])
                /\ ~MalformedObs(observations_csv[ij[2]])
                => \E k \in DOMAIN timeline_df :
                      RecordOfPair(timeline_df[k], medications_csv[ij[1]], observations_csv[ij[2]])

-----------------------------------------------------------------------------
(* Properties of small groups, of shards and of times of day *)

\* The positions of the timeline records of the group of key
GroupRows(key) == {k \in DOMAIN timeline_df : GroupKey(timeline_df[k]) = key}

\* C18: a group with fewer than 2 timeline records has no outcome record.
C18_SmallGroup ==
    pc = "done" =>
        \A key \in TimelineKeys : Cardinality(GroupRows(key)) < 2 => OutcomesOf(key) = {}

\* A group of one record next to a group with an outcome record
C18_Witness ==
    /\ pc = "done"
    /\ outcomes_df # <<>>
    /\ \E key \in TimelineKeys : Cardinality(GroupRows(key)) = 1 /\ ~HasMissing(key)

\* The rows of one patient in a table
Shard(df, patient) == SelectSeq(df, LAMBDA r : r.patient = patient)

Patients == MedPatients \cup ObsPatients

\* The three stages of main run on the shard of one patient raise
ShardRaises(patient) ==
    LET meds == Shard(medications_csv, patient)
        obs == Shard(observations_csv, patient)
    IN \/ \E i \in DOMAIN meds : ToDatetimeRaises(meds[i].start) \/ ToDatetimeRaises(meds[i].stop)
       \/ /\ ~IsEmpty(meds) /\ ~IsEmpty(obs)
          /\ \E i \in DOMAIN obs : ToDatetimeRaises(obs[i].date)

\* The timeline the stages of main build from the shard of one patient
ShardTimeline(patient) ==
    LET meds == Shard(medications_csv, patient)
        obs == Shard(observations_csv, patient)
    IN IF IsEmpty(obs) \/ IsEmpty(meds) THEN <<>>
       ELSE create_observation_timeline(ValueConverted(DateConverted(obs)),
                                        create_medication_periods(meds))

\* The outcomes the stages of main build from the shard of one patient
ShardOutcomes(patient) ==
    IF IsEmpty(ShardTimeline(patient)) THEN <<>>
    ELSE create_patient_medication_outcomes(ValueConverted(ShardTimeline(patient)))

\* The records main ends with: none when a stage raised
Terminated == pc \in {"done", "raised"}

FinalRecords(df) == IF pc = "done" THEN Range(df) ELSE {}

\* C19 as claimed: when main has ended, the records of each patient are the
\* records of a run on that patient's rows alone, whatever the rows of the other
\* patients are: the timeline records and the outcome records of the run on the
\* whole tables are the union of those of the runs on the shards that complete.
C19_PatientIndependence ==
    Terminated =>
        \A patient \in Patients :
            ~ShardRaises(patient) =>
                /\ {r \in FinalRecords(timeline_df) : r.patient = patient}
                       = Range(ShardTimeline(patient))
                /\ {r \in FinalRecords(outcomes_df) : r.patient = patient}
                       = Range(ShardOutcomes(patient))

-----------------------------------------------------------------------------
(* Tables whose dates carry a time of day *)

MaxHrsMeds == 1
MaxHrsObs == 2

\* Hours from the medication start to the observation
HourOffsets == {-42, -24, -12, 6, 30, 48}

\* A start at noon and a start at midnight
HourMedRows ==
    {MedRow("P1", "M1", "D1", StrDate(StartDay * HoursPerDay + h), NoDate) : h \in {0, 12}}

HourObsRows ==
    {ObsRow("P1", "X", StrDate(StartDay * HoursPerDay + 12 + off), StrNum(5)) :
        off \in HourOffsets}

InitHours ==
    InitWith(Tables(HourMedRows, MaxHrsMeds), Tables(HourObsRows, MaxHrsObs), SortKinds)

SpecHours == InitHours /\ [][Next]_vars

\* The hours from the medication start to the observation of a timeline record
HoursApart(r) == r.obs_date.t - r.med_start_date.t

WholeDays(r) == HoursApart(r) % HoursPerDay = 0

\* C20 as claimed: where the two instants are not a whole number of days apart,
\* days_relative is the difference in days with its fraction cut off toward
\* zero, so it is 0 for an observation less than one day before the start.
C20_Truncation ==
    TimelineBuilt =>
        \A k \in DOMAIN timeline_df :
            LET r == timeline_df[k]
            IN ~WholeDays(r) =>
                  r.days_relative = DaysRelativeTruncated(r.obs_date, r.med_start_date)

\* C20: days_relative is the difference in days rounded down (toward minus
\* infinity): the largest integer d with d days <= observation - start.  An
\* observation less than one day before the start has days_relative -1, one
\* less than one day after the start has days_relative 0.
C20_Floor ==
    TimelineBuilt =>
        \A k \in DOMAIN timeline_df :
            LET r == timeline_df[k]
            IN /\ r.days_relative * HoursPerDay <= HoursApart(r)
               /\ HoursApart(r) < (r.days_relative + 1) * HoursPerDay
               /\ (HoursApart(r) < 0 /\ HoursApart(r) > 0 - HoursPerDay) => r.days_relative = -1
               /\ (HoursApart(r) > 0 /\ HoursApart(r) < HoursPerDay) => r.days_relative = 0

\* A timeline with an observation half a day before the start and one a quarter
\* of a day after it
C20_Witness ==
    /\ TimelineBuilt
    /\ \E j, k \in DOMAIN timeline_df :
          /\ HoursApart(timeline_df[j]) = -12 /\ timeline_df[j].days_relative = -1
          /\ HoursApart(timeline_df[k]) = 6 /\ timeline_df[k].days_relative = 0

-----------------------------------------------------------------------------
(* Properties of the two data points of an outcome *)

\* The observation rows an end of an outcome record can stem from, by position
ObservationsOf(out, date, value) ==
    {i \in DOMAIN observations_df :
        /\ observations_df[i].patient = out.patient
        /\ observations_df[i].code = out.obs_code
        /\ observations_df[i].date = date
        /\ observations_df[i].value = value}

\* C21 as claimed: for calendar dates, every outcome record has its pre_date
\* strictly before its post_date, and its pre and post data points are two
\* different observation rows, also when a patient has several periods of one
\* drug.
C21_DistinctDataPoints ==
    pc = "done" =>
        \A k \in DOMAIN outcomes_df :
            LET out == outcomes_df[k]
            IN /\ out.pre_date.t < out.post_date.t
               /\ \E i \in ObservationsOf(out, out.pre_date, out.pre_value) :
                  \E j \in ObservationsOf(out, out.post_date, out.post_value) : i # j

====
